---- MODULE Spec2Model ----
(***************************************************************************)
(* Model of the rig-repl agent: the RAG middleware (query_rag), the two    *)
(* REPL loops (rig_agent.rs and main.rs) and the document ingestion of     *)
(* RAGBuilder (ingest_docs).                                               *)
(*                                                                         *)
(* Conventions.  Strings are TLA+ strings.  A chunk's content is a record  *)
(* [text, len]: text abbreviates the characters and len is the value of    *)
(* content.len().  Scores (f64) are kept in thousandths, so 0.9 is 900.    *)
(***************************************************************************)
EXTENDS Integers, Sequences, FiniteSets, TLC

VARIABLES
    pc,              \* position of the running function
    impl,            \* which start_repl runs: "rig_agent", "main"; "query_rag": query_rag called on its own
    line,            \* start_repl: the line returned by readline
    lastRead,        \* start_repl: kind of the last readline result
    eof,             \* the line reader has reached end of input
    turns,           \* number of lines read so far
    history,         \* start_repl: the local Vec<Message> handed to the completion
    self_history,    \* RigAgent.history, the field query_rag clears
    query,           \* query_rag: its argument
    top_n,           \* query_rag: the Result of index.top_n(req).await
    search_results,  \* query_rag: the Vec unwrapped from it
    i,               \* query_rag: position of the for loop in search_results
    ctx_size,        \* query_rag: cumulative admitted length
    context,         \* query_rag: admitted, formatted chunks
    admitted,        \* indices of search_results pushed to context
    rag_result,      \* value returned by query_rag
    completions,     \* log of calls of the completion capability
    display,         \* what the loop printed last
    repl_result,     \* value returned by start_repl
    d,               \* ingest_docs: position of the outer loop in cfg.rag_directories
    f,               \* ingest_docs: entries the walk of the current root has yielded
    docs,            \* RAGBuilder.docs
    reads,           \* log of fs::read_to_string calls
    chunked,         \* log of chunker calls
    ignored,         \* names of the regular files that took the `_` arm
    ingest_result    \* value returned by ingest_docs

ragVars == <<query, top_n, search_results, i, ctx_size, context, admitted, rag_result, self_history>>
replVars == <<impl, line, lastRead, eof, turns, history, completions, display, repl_result>>
ingestVars == <<d, f, docs, reads, chunked, ignored, ingest_result>>
vars == <<pc, ragVars, replVars, ingestVars>>

(***************************************************************************)
(* Bounds                                                                  *)
(***************************************************************************)
MaxResults == 3     \* results returned by one search (the code asks for 30)
MaxTurns == 3       \* lines read by one run of the loop
MaxHistory == 1     \* messages in RigAgent.history before a query
NumDirs == 2        \* configured root directories
MaxEntries == 3     \* entries the walk of one root yields

(***************************************************************************)
(* rag_middleware.rs                                                       *)
(***************************************************************************)
SEPARATOR == "\n\n---\n\n"
DISTANCE == 900
MAX_CHAR_LEN == 30000

\* The chunks an index may hold: contents of 100, 15000 and 20000 characters.
Chunks ==
    { [file_name |-> "\"a.md\"", content |-> [text |-> "A", len |-> 100]],
      [file_name |-> "\"b.md\"", content |-> [text |-> "B", len |-> 15000]],
      [file_name |-> "\"c.sol\"", content |-> [text |-> "C", len |-> 20000]] }

Scores == {DISTANCE - 1, DISTANCE, DISTANCE + 1}

\* One element of the Vec<(f64, String, UniswapChunk)> returned by top_n.
SearchResult == [score : Scores, name : {"doc"}, chunk : Chunks]

\* top_n returns its results ranked by score.
IsRanked(s) ==
    \/ \A k \in 1..(Len(s) - 1) : s[k].score >= s[k + 1].score
    \/ \A k \in 1..(Len(s) - 1) : s[k].score <= s[k + 1].score

Ok(v) == [ok |-> TRUE, val |-> v]
Err(e) == [ok |-> FALSE, val |-> e]
Running == [ok |-> FALSE, val |-> "running"]

SearchFailed == Err("RetrievalError")

\* Every outcome of index.top_n(req).await: an error or a ranked Vec.
SearchOutcomes ==
    {SearchFailed} \cup
    { Ok(s) : s \in { t \in UNION { [1..n -> SearchResult] : n \in 0..MaxResults } : IsRanked(t) } }

\* Vec<String>::join
RECURSIVE Join(_, _)
Join(v, sep) ==
    IF Len(v) = 0 THEN ""
    ELSE IF Len(v) = 1 THEN v[1]
    ELSE v[1] \o sep \o Join(Tail(v), sep)

FormatChunk(name, chunk) ==
    "Source: " \o name \o "\nContent: " \o chunk.content.text

FormatPrompt(ctx, q) ==
    "You have access to the following relevant documentation: \n\n" \o ctx
        \o "\n\n --- \n\nUser: " \o q

\* Variant of ExceedsDistance that also turns away a score equal to the threshold.
ExceedsDistance_Strict(score) == score >= DISTANCE

\* `if score > 0.9 { continue; }`
ExceedsDistance(score) == score > DISTANCE

\* Variant of ExceedsBudget that tests the admitted length alone.
ExceedsBudget_NoAdd(chunk, size) == size > MAX_CHAR_LEN

\* `if chunk.content.len() + ctx_size > MAX_CHAR_LEN { continue; }`
ExceedsBudget(chunk, size) == chunk.content.len + size > MAX_CHAR_LEN

\* Variant of Passthrough that wraps the query around an empty context.
Passthrough_Augmented(q) == Ok(FormatPrompt(Join(<<>>, SEPARATOR), q))

\* `return Ok(String::from(query))`
Passthrough(q) == Ok(q)

\* query_rag up to the for loop: the search, the empty check, history.clear().
QueryRagSearch(outcomes) ==
    /\ pc = "query_rag"
    /\ \E r \in outcomes :
        /\ top_n' = r
        /\ IF ~r.ok
           THEN /\ rag_result' = r
                /\ pc' = "rag_returned"
                /\ UNCHANGED <<search_results, self_history>>
           ELSE IF Len(r.val) = 0
           THEN /\ rag_result' = Passthrough(query)
                /\ pc' = "rag_returned"
                /\ search_results' = r.val
                /\ UNCHANGED self_history
           ELSE /\ search_results' = r.val
                /\ self_history' = <<>>
                /\ pc' = "rag_loop"
                /\ UNCHANGED rag_result
    /\ i' = 1
    /\ ctx_size' = 0
    /\ context' = <<>>
    /\ admitted' = {}
    /\ UNCHANGED <<query, replVars, ingestVars>>

\* One iteration of `for (score, name, chunk) in search_results`.
QueryRagStep ==
    /\ pc = "rag_loop"
    /\ i <= Len(search_results)
    /\ LET r == search_results[i] IN
        IF ExceedsDistance(r.score) \/ ExceedsBudget(r.chunk, ctx_size)
        THEN UNCHANGED <<ctx_size, context, admitted>>
        ELSE /\ ctx_size' = ctx_size + r.chunk.content.len
             /\ context' = Append(context, FormatChunk(r.name, r.chunk))
             /\ admitted' = admitted \cup {i}
    /\ i' = i + 1
    /\ UNCHANGED <<pc, query, top_n, search_results, rag_result, self_history, replVars,
                   ingestVars>>

\* After the loop: join the context and format the prompt.
QueryRagReturn ==
    /\ pc = "rag_loop"
    /\ i > Len(search_results)
    /\ rag_result' = Ok(FormatPrompt(Join(context, SEPARATOR), query))
    /\ pc' = "rag_returned"
    /\ UNCHANGED <<query, top_n, search_results, i, ctx_size, context, admitted,
                   self_history, replVars, ingestVars>>

Queries == {"hi", "fee?"}

Message(role, content) == [role |-> role, content |-> content]

Histories == UNION { [1..n -> {Message("user", "old")}] : n \in 0..MaxHistory }

NoIngest ==
    /\ d = 1
    /\ f = 0
    /\ docs = <<>>
    /\ reads = <<>>
    /\ chunked = <<>>
    /\ ignored = {}
    /\ ingest_result = Running

NoRepl ==
    /\ line = ""
    /\ lastRead = "none"
    /\ eof = FALSE
    /\ turns = 0
    /\ history = <<>>
    /\ completions = <<>>
    /\ display = "none"
    /\ repl_result = Running

NoRag ==
    /\ query = ""
    /\ top_n = Running
    /\ search_results = <<>>
    /\ i = 1
    /\ ctx_size = 0
    /\ context = <<>>
    /\ admitted = {}
    /\ rag_result = Running

\* query_rag called with any query on an agent with any history.
InitRag ==
    /\ pc = "query_rag"
    /\ impl = "query_rag"
    /\ query \in Queries
    /\ self_history \in Histories
    /\ top_n = Running
    /\ search_results = <<>>
    /\ i = 1
    /\ ctx_size = 0
    /\ context = <<>>
    /\ admitted = {}
    /\ rag_result = Running
    /\ NoRepl
    /\ NoIngest

NextRag ==
    \/ QueryRagSearch(SearchOutcomes)
    \/ QueryRagStep
    \/ QueryRagReturn

SpecRag == InitRag /\ [][NextRag]_vars

(***************************************************************************)
(* rig_agent.rs: RigAgent::start_repl                                      *)
(***************************************************************************)
PROCESSING_MESSAGE == "Claude: Processing Request..."

\* str::trim, for the space character
RECURSIVE TrimStart(_)
TrimStart(s) ==
    IF Len(s) > 0 /\ SubSeq(s, 1, 1) = " " THEN TrimStart(SubSeq(s, 2, Len(s))) ELSE s

RECURSIVE TrimEnd(_)
TrimEnd(s) ==
    IF Len(s) > 0 /\ SubSeq(s, Len(s), Len(s)) = " "
    THEN TrimEnd(SubSeq(s, 1, Len(s) - 1)) ELSE s

Trim(s) == TrimEnd(TrimStart(s))

IsQuit(l) == Trim(l) = "quit"

Lines == {"hi", "quit", " quit "}

\* What rl.readline returns: a line, or an error (end of input, interrupt).
\* Once the input has ended every later call reports end of input.
ReadOutcomes ==
    IF eof THEN {Err("Eof")}
    ELSE {Err("Eof"), Err("Interrupted")} \cup { Ok(l) : l \in Lines }

\* The search outcomes a turn of the loop is run against.
ReplSearchOutcomes ==
    LET R(s, c) == [score |-> s, name |-> "doc", chunk |-> c]
        A == CHOOSE c \in Chunks : c.content.len = 100
        B == CHOOSE c \in Chunks : c.content.len = 15000
        C == CHOOSE c \in Chunks : c.content.len = 20000
    IN  { SearchFailed,
          Ok(<<>>),
          Ok(<<R(DISTANCE + 1, A)>>),
          Ok(<<R(DISTANCE - 1, A)>>),
          Ok(<<R(DISTANCE - 1, C), R(DISTANCE - 1, B), R(DISTANCE - 1, A)>>) }

\* One read of the loop, up to the call of query_rag.
ReadLine ==
    /\ pc = "AwaitingInput"
    /\ impl = "rig_agent"
    /\ \E r \in ReadOutcomes :
        IF r.ok
        THEN /\ lastRead' = "line"
             /\ line' = r.val
             /\ UNCHANGED eof
             /\ IF IsQuit(r.val)
                THEN /\ pc' = "Terminated"
                     /\ repl_result' = Ok("unit")
                     /\ UNCHANGED <<query, display, turns>>
                ELSE /\ turns < MaxTurns
                     /\ turns' = turns + 1
                     /\ display' = PROCESSING_MESSAGE
                     /\ query' = r.val
                     /\ pc' = "query_rag"
                     /\ UNCHANGED repl_result
        ELSE /\ lastRead' = r.val
             /\ eof' = (eof \/ r.val = "Eof")
             /\ display' = "read line error"
             /\ UNCHANGED <<pc, line, query, turns, repl_result>>
    /\ UNCHANGED <<impl, history, completions, top_n, search_results, i, ctx_size, context,
                   admitted, rag_result, self_history, ingestVars>>

\* `self.query_rag(&line).await?` on an error.
PropagateRagError ==
    /\ pc = "rag_returned"
    /\ impl = "rig_agent"
    /\ ~rag_result.ok
    /\ repl_result' = rag_result
    /\ pc' = "Terminated"
    /\ UNCHANGED <<ragVars, impl, line, lastRead, eof, turns, history, completions,
                   display, ingestVars>>

\* What the completion does to the history it is lent: it pushes the prompt
\* and, on success, the reply; a failure may come before or after the push.
CompletionOutcomes(prompt) ==
    { [ok |-> TRUE, pushed |-> <<Message("user", prompt), Message("assistant", "reply")>>],
      [ok |-> FALSE, pushed |-> <<Message("user", prompt)>>],
      [ok |-> FALSE, pushed |-> <<>>] }

\* agent.prompt(query).multi_turn(20).with_history(&mut history) and the display.
Prompt ==
    /\ pc = "rag_returned"
    /\ impl = "rig_agent"
    /\ rag_result.ok
    /\ \E out \in CompletionOutcomes(rag_result.val) :
        /\ history' = history \o out.pushed
        /\ display' = IF out.ok THEN "reply" ELSE "prompt error"
        /\ completions' = Append(completions,
               [prompt |-> rag_result.val, history |-> history, ok |-> out.ok])
    /\ pc' = "AwaitingInput"
    /\ UNCHANGED <<ragVars, impl, line, lastRead, eof, turns, repl_result, ingestVars>>

(***************************************************************************)
(* main.rs: RigAgent::start_repl                                           *)
(***************************************************************************)
MainReadLine ==
    /\ pc = "AwaitingInput"
    /\ impl = "main"
    /\ \E r \in ReadOutcomes :
        IF r.ok
        THEN /\ turns < MaxTurns
             /\ turns' = turns + 1
             /\ lastRead' = "line"
             /\ line' = r.val
             /\ history' = Append(history, Message("user", r.val))
             /\ pc' = "chat"
             /\ UNCHANGED <<eof, repl_result>>
        ELSE /\ lastRead' = r.val
             /\ eof' = (eof \/ r.val = "Eof")
             /\ pc' = "Terminated"
             /\ repl_result' = Ok("unit")
             /\ UNCHANGED <<line, history, turns>>
    /\ UNCHANGED <<ragVars, impl, completions, display, ingestVars>>

\* `self.provider.chat(&line, chat_history.clone()).await?` and the println.
MainChat ==
    /\ pc = "chat"
    /\ impl = "main"
    /\ \E ok \in BOOLEAN :
        /\ completions' = Append(completions,
               [prompt |-> line, history |-> history, ok |-> ok])
        /\ IF ok
           THEN /\ display' = "reply"
                /\ pc' = "AwaitingInput"
                /\ UNCHANGED repl_result
           ELSE /\ repl_result' = Err("CompletionError")
                /\ pc' = "Terminated"
                /\ UNCHANGED display
    /\ UNCHANGED <<ragVars, impl, line, lastRead, eof, turns, history, ingestVars>>

\* start_repl entered: the editor is created, the history is empty.
Init ==
    /\ pc = "AwaitingInput"
    /\ impl \in {"rig_agent", "main"}
    /\ NoRepl
    /\ NoRag
    /\ self_history \in Histories
    /\ NoIngest

Next ==
    \/ ReadLine
    \/ QueryRagSearch(ReplSearchOutcomes)
    \/ QueryRagStep
    \/ QueryRagReturn
    \/ PropagateRagError
    \/ Prompt
    \/ MainReadLine
    \/ MainChat

Spec == Init /\ [][Next]_vars

(***************************************************************************)
(* rag_builder.rs: RAGBuilder::ingest_docs                                 *)
(***************************************************************************)
MD_EXTENSION == "md"
SOL_EXTENSION == "sol"

None == [some |-> FALSE, val |-> ""]
Some(v) == [some |-> TRUE, val |-> v]

\* Position of the last "." of s, 0 when there is none.
RECURSIVE LastDot(_, _)
LastDot(s, k) ==
    IF k = 0 THEN 0
    ELSE IF SubSeq(s, k, k) = "." THEN k
    ELSE LastDot(s, k - 1)

\* Path::extension().and_then(|ext| ext.to_str()): the part of the file name
\* after its last ".", None without a "." or when the only "." leads the name.
Extension(name) ==
    LET k == LastDot(name, Len(name)) IN
    IF k <= 1 THEN None ELSE Some(SubSeq(name, k + 1, Len(name)))

\* format!("{:?}", file.file_name())
DebugFmt(name) == "\"" \o name \o "\""

\* Split s into pieces that each start at a mark (markAtStart) or end at one.
RECURSIVE SplitAt(_, _, _, _)
SplitAt(s, mark, markAtStart, cur) ==
    IF Len(s) = 0 THEN (IF cur = "" THEN <<>> ELSE <<cur>>)
    ELSE LET c == SubSeq(s, 1, 1)
             rest == SubSeq(s, 2, Len(s))
         IN  IF c # mark THEN SplitAt(rest, mark, markAtStart, cur \o c)
             ELSE IF markAtStart
             THEN (IF cur = "" THEN <<>> ELSE <<cur>>) \o SplitAt(rest, mark, markAtStart, c)
             ELSE <<cur \o c>> \o SplitAt(rest, mark, markAtStart, "")

\* MarkdownSplitter::chunks: the text cut at its headers.
MarkdownChunks(text) == SplitAt(text, "#", TRUE, "")

\* CodeSplitter::chunks: the text cut after its statements.
CodeChunks(text) == SplitAt(text, ";", FALSE, "")

\* UniswapChunk::new(&name) with its content set.
UniswapChunk(name, content) == [file_name |-> name, content |-> content]

\* ingest_md_file
IngestMdFile(docs0, file, name) ==
    docs0 \o [k \in 1..Len(MarkdownChunks(file)) |-> UniswapChunk(name, MarkdownChunks(file)[k])]

\* ingest_solidity_file
IngestSolidityFile(docs0, file, name) ==
    docs0 \o [k \in 1..Len(CodeChunks(file)) |-> UniswapChunk(name, CodeChunks(file)[k])]

FileText == "#a;b#c;"

\* What WalkDir yields under a root: regular files (readable or not),
\* directories, and entries the walk failed on.
Entries ==
    { [kind |-> "file", name |-> "x.md", readable |-> TRUE, text |-> FileText],
      [kind |-> "file", name |-> "x.md", readable |-> FALSE, text |-> ""],
      [kind |-> "file", name |-> "y.sol", readable |-> TRUE, text |-> FileText],
      [kind |-> "file", name |-> "y.sol", readable |-> FALSE, text |-> ""],
      [kind |-> "file", name |-> "z.txt", readable |-> FALSE, text |-> ""],
      [kind |-> "file", name |-> "LICENSE", readable |-> FALSE, text |-> ""],
      [kind |-> "dir", name |-> "sub.md", readable |-> FALSE, text |-> ""],
      [kind |-> "walk_error", name |-> "", readable |-> FALSE, text |-> ""] }

\* Variant of Route that sends .sol files to the markdown chunker too.
Route_AllMarkdown(name) ==
    LET ext == Extension(name) IN
    IF ext = Some(MD_EXTENSION) \/ ext = Some(SOL_EXTENSION) THEN "markdown"
    ELSE "ignore"

\* The arm the match of ingest_docs takes for a file name.
Route(name) ==
    LET ext == Extension(name) IN
    IF ext = Some(MD_EXTENSION) THEN "markdown"
    ELSE IF ext = Some(SOL_EXTENSION) THEN "code"
    ELSE "ignore"

\* The walk of the current root yields one more entry: the two filters, then
\* the match on the extension.
IngestEntry ==
    /\ pc = "ingest_docs"
    /\ d <= NumDirs
    /\ f < MaxEntries
    /\ \E e \in Entries :
        LET name == DebugFmt(e.name)
            route == Route(e.name)
        IN  IF e.kind # "file"
            THEN /\ f' = f + 1
                 /\ UNCHANGED <<pc, docs, reads, chunked, ignored, ingest_result>>
            ELSE IF route = "ignore"
            THEN /\ f' = f + 1
                 /\ ignored' = ignored \cup {e.name}
                 /\ UNCHANGED <<pc, docs, reads, chunked, ingest_result>>
            ELSE /\ reads' = Append(reads, [name |-> e.name, ok |-> e.readable])
                 /\ UNCHANGED ignored
                 /\ IF ~e.readable
                    THEN /\ ingest_result' = Err("io")
                         /\ pc' = "ingest_returned"
                         /\ UNCHANGED <<f, docs, chunked>>
                    ELSE /\ docs' = IF route = "markdown"
                                    THEN IngestMdFile(docs, e.text, name)
                                    ELSE IngestSolidityFile(docs, e.text, name)
                         /\ chunked' = Append(chunked,
                                [chunker |-> route, name |-> e.name, text |-> e.text])
                         /\ f' = f + 1
                         /\ UNCHANGED <<pc, ingest_result>>
    /\ UNCHANGED <<d, ragVars, replVars>>

\* The walk of the current root is exhausted: the outer loop moves on.
IngestNextDir ==
    /\ pc = "ingest_docs"
    /\ d <= NumDirs
    /\ d' = d + 1
    /\ f' = 0
    /\ UNCHANGED <<pc, docs, reads, chunked, ignored, ingest_result, ragVars, replVars>>

\* Both loops are done: Ok(self).
IngestReturn ==
    /\ pc = "ingest_docs"
    /\ d > NumDirs
    /\ ingest_result' = Ok(docs)
    /\ pc' = "ingest_returned"
    /\ UNCHANGED <<d, f, docs, reads, chunked, ignored, ragVars, replVars>>

\* RAGBuilder::new(cfg): no document yet, the first root about to be walked.
InitIngest ==
    /\ pc = "ingest_docs"
    /\ NoIngest
    /\ impl = "ingest_docs"
    /\ NoRepl
    /\ NoRag
    /\ self_history = <<>>

NextIngest ==
    \/ IngestEntry
    \/ IngestNextDir
    \/ IngestReturn

SpecIngest == InitIngest /\ [][NextIngest]_vars

(***************************************************************************)
(* Claims about query_rag, checked under SpecRag                           *)
(***************************************************************************)

\* C1: at every step of the admission loop the cumulative length of the
\* admitted chunks, ctx_size, is at most MAX_CHAR_LEN.
C1_BudgetNeverExceeded == ctx_size <= MAX_CHAR_LEN

\* Two chunks fill the budget exactly and a third, relevant one was turned away.
C1_Witness ==
    /\ pc = "rag_returned"
    /\ Len(search_results) = 3
    /\ admitted = {1, 2}
    /\ ctx_size = MAX_CHAR_LEN
    /\ ~ExceedsDistance(search_results[3].score)

\* C2: admission stops at the first candidate that would overflow the
\* budget: every relevant candidate ranked before an admitted one was itself
\* admitted (for relevant sizes 20000, 15000, 100 only the first is admitted).
C2_StopsAtFirstOverflow ==
    \A k \in admitted : \A j \in 1..(k - 1) :
        search_results[j].score > DISTANCE \/ j \in admitted

\* C3 as stated: a result is admitted only if its score is strictly below
\* the threshold, so a result scored exactly 0.9 is excluded.
C3_StrictlyBelowThreshold ==
    \A k \in admitted : search_results[k].score < DISTANCE

\* C3 amended: a result is admitted exactly when its score is at most the
\* threshold and it fits the budget left when the loop reaches it; a result
\* scored exactly 0.9 is included.
C3_AtMostThreshold ==
    [][(pc = "rag_loop" /\ i' = i + 1) =>
        ((i \in admitted') <=>
            /\ search_results[i].score <= DISTANCE
            /\ search_results[i].chunk.content.len + ctx_size <= MAX_CHAR_LEN)]_vars

\* A result scored exactly 0.9 is in the context and one scored above is not.
C3_Witness ==
    /\ pc = "rag_returned"
    /\ \E k \in admitted : search_results[k].score = DISTANCE
    /\ \E k \in 1..Len(search_results) :
        search_results[k].score = DISTANCE + 1 /\ k \notin admitted

\* C4: when the search returns an empty result set, query_rag returns
\* Ok(query): the original query and nothing else, as a success.
C4_EmptyPassthrough ==
    (pc = "rag_returned" /\ top_n = Ok(<<>>)) => rag_result = Ok(query)

\* query_rag has returned from an empty search.
C4_Witness ==
    /\ pc = "rag_returned"
    /\ top_n = Ok(<<>>)
    /\ rag_result.ok
    /\ rag_result.val \in Queries

(***************************************************************************)
(* Claims about start_repl, checked under Spec                             *)
(***************************************************************************)
IsPrefix(s, t) == Len(s) <= Len(t) /\ SubSeq(t, 1, Len(s)) = s

\* C5: a search failure inside query_rag does not abort the loop: the turn
\* sends the unaugmented line to the completion and start_repl keeps running.
C5_SearchFailureFallsBack ==
    /\ repl_result # SearchFailed
    /\ (pc = "rag_returned" /\ ~rag_result.ok) => ENABLED Prompt

\* C6: a completion failure is reported and does not end the loop: the loop
\* awaits input again with the history of before the call kept, and the
\* turns after it are processed, so start_repl never returns an error
\* once a completion has failed.
C6_CompletionFailureIsolated ==
    /\ (display = "prompt error" /\ pc # "Terminated") =>
        /\ pc = "AwaitingInput"
        /\ IsPrefix(completions[Len(completions)].history, history)
    /\ (\E k \in 1..Len(completions) : ~completions[k].ok) =>
        ~(pc = "Terminated" /\ ~repl_result.ok)

\* C7: an explicit quit and an end of input both end the loop: start_repl
\* has returned Ok, without a call of query_rag or of the completion for
\* that input, and nothing is read after the end of input.
C7_QuitAndEofTerminate ==
    /\ (lastRead = "Eof" => (pc = "Terminated" /\ repl_result.ok))
    /\ ((lastRead = "line" /\ IsQuit(line)) => (pc = "Terminated" /\ repl_result.ok))

\* C10: query_rag clears the history the loop hands to the completion
\* exactly when the search returned results: the completion of such a turn
\* sees an empty history.
C10_HistoryClearedOnResults ==
    (impl = "rig_agent" /\ pc = "rag_returned" /\ top_n.ok /\ Len(top_n.val) > 0)
    => history = <<>>

(***************************************************************************)
(* Claims about ingest_docs, checked under SpecIngest                      *)
(***************************************************************************)
IsSourceExt(name) ==
    Extension(name) = Some(MD_EXTENSION) \/ Extension(name) = Some(SOL_EXTENSION)

\* C8: a file that cannot be read contributes no chunks and does not abort
\* the ingestion: ingest_docs walks every root to its end and returns Ok
\* with the chunks of the files it could read.
C8_UnreadableFileSkipped ==
    pc = "ingest_returned" =>
        /\ ingest_result = Ok(docs)
        /\ d > NumDirs

\* The chunks of the file of a chunker call, as its extension has them cut.
ChunksByExtension(c) ==
    IF Extension(c.name) = Some(MD_EXTENSION)
    THEN IngestMdFile(<<>>, c.text, DebugFmt(c.name))
    ELSE IF Extension(c.name) = Some(SOL_EXTENSION)
    THEN IngestSolidityFile(<<>>, c.text, DebugFmt(c.name))
    ELSE <<>>

RECURSIVE ChunksOfCalls(_)
ChunksOfCalls(cs) ==
    IF Len(cs) = 0 THEN <<>> ELSE ChunksByExtension(cs[1]) \o ChunksOfCalls(Tail(cs))

\* C9: only .md files reach the markdown chunker and only .sol files the
\* source-code chunker; a file with another or no extension is never read,
\* yields no chunk and no error; the documents are exactly the pieces cut
\* from the .md and .sol files read, each carrying the (quoted) name of its file.
C9_RoutedByExtension ==
    /\ \A k \in 1..Len(chunked) :
        /\ chunked[k].chunker = "markdown" => Extension(chunked[k].name) = Some(MD_EXTENSION)
        /\ chunked[k].chunker = "code" => Extension(chunked[k].name) = Some(SOL_EXTENSION)
        /\ chunked[k].chunker \in {"markdown", "code"}
    /\ \A k \in 1..Len(reads) : IsSourceExt(reads[k].name)
    /\ \A n \in ignored :
        /\ ~IsSourceExt(n)
        /\ \A k \in 1..Len(docs) : docs[k].file_name # DebugFmt(n)
    /\ docs = ChunksOfCalls(chunked)
    /\ (pc = "ingest_returned" /\ ~ingest_result.ok) =>
        (Len(reads) > 0 /\ ~reads[Len(reads)].ok)
    /\ \A k \in 1..Len(reads) : ~reads[k].ok => (pc = "ingest_returned" /\ k = Len(reads))

\* An ingestion that met a .md file, a .sol file and files of another and of
\* no extension has returned the chunks of the first two.
C9_Witness ==
    /\ pc = "ingest_returned"
    /\ ingest_result.ok
    /\ \E k \in 1..Len(chunked) : chunked[k].chunker = "markdown"
    /\ \E k \in 1..Len(chunked) : chunked[k].chunker = "code"
    /\ \E n \in ignored : Extension(n) = Some("txt")
    /\ \E n \in ignored : Extension(n) = None
    /\ Len(docs) = 4

====
